---------------------------- MODULE Spec2Model ----------------------------
(***************************************************************************)
(* A model of the simulation core of mineplace (src/utils.py): the Block   *)
(* value and its canonical text, the per-tick world update (update_world), *)
(* structure stamping (StructureManager.place_structure) and terrain       *)
(* generation (WorldGenerator.generate).                                   *)
(*                                                                         *)
(* Python lists are modelled as functions on 0..n-1, so that the indices   *)
(* of the model are the indices of the code.  A Python string is modelled  *)
(* as a sequence of tokens: a maximal run of word characters is one token, *)
(* every other character ('[', ']', '=', ',', '"', ' ') is a token of its  *)
(* own.  No operation of the code splits a run of word characters.         *)
(***************************************************************************)
EXTENDS Integers, Sequences, FiniteSets, TLC

VARIABLES
    world,    \* the caller's current grid: world[row][col], row 0 at the top
    tick,     \* the driver's tick counter
    pre,      \* the grid that was passed to the last operation
    arg,      \* the list object that was passed to the last operation, as
              \* it is after the call returned
    call,     \* the last operation and its inputs
    ret,      \* how the last operation ended: "ok" or the exception raised
    landed    \* history: the cells in which a sand block that has fallen
              \* was found blocked at the end of some tick

vars == <<world, tick, pre, arg, call, ret, landed>>

----------------------------------------------------------------------------
(* Python lists *)

ListLen(l) == Cardinality(DOMAIN l)

EmptyList == [i \in {} |-> 0]

ListAppend(l, e) ==
    [i \in 0..ListLen(l) |-> IF i < ListLen(l) THEN l[i] ELSE e]

\* a Python subscript: a negative index counts from the end of the list
PyIndex(i, n) == IF i < 0 THEN i + n ELSE i

\* whether l[i] is a subscript Python accepts (otherwise it raises IndexError)
PyIndexOk(i, n) == PyIndex(i, n) >= 0 /\ PyIndex(i, n) < n

----------------------------------------------------------------------------
(* Block *)

NoAttr == [k \in {} |-> <<>>]

\* Block(name, attr): attr maps each key to its value, a string (a token
\* sequence)
Block(name, attr) == [name |-> name, attr |-> attr]

\* Block(name): the default attr={}
Block0(name) == Block(name, NoAttr)

\* Block.getattr: None when the key is absent
None == <<"None", "None">>

BlockGetattr(b, key) ==
    IF key \in DOMAIN b.attr THEN b.attr[key] ELSE None

\* Block.__eq__ / __ne__: same name and same attribute mapping
BlockEq(a, b) == a.name = b.name /\ a.attr = b.attr

BlockNe(a, b) == ~BlockEq(a, b)

----------------------------------------------------------------------------
(* Canonical text *)

LB == "["
RB == "]"
EQ == "="
COMMA == ","
QUOTE == "\""
SPACE == " "

\* the order in which the program inserts the attribute keys of the blocks
\* it constructs (dust: state, power; repeater: state, orientation;
\* observer: state, orientation, last; gravel: static; log: horiz)
KeyOrder == <<"static", "horiz", "state", "power", "orientation", "last">>

RECURSIVE JoinAttrs(_, _, _)
\* ", ".join([f"{key}=\"{value}\"" ...]) over the keys of attr from
\* KeyOrder[i] on; first tells whether no item was emitted yet
JoinAttrs(attr, i, first) ==
    IF i > Len(KeyOrder) THEN <<>>
    ELSE IF KeyOrder[i] \notin DOMAIN attr THEN JoinAttrs(attr, i + 1, first)
    ELSE (IF first THEN <<>> ELSE <<COMMA, SPACE>>)
         \o <<KeyOrder[i], EQ, QUOTE>> \o attr[KeyOrder[i]] \o <<QUOTE>>
         \o JoinAttrs(attr, i + 1, FALSE)

\* Block.__repr__
Repr(b) == <<b.name, LB>> \o JoinAttrs(b.attr, 1, TRUE) \o <<RB>>

RECURSIVE LStrip(_)
LStrip(s) == IF s # <<>> /\ Head(s) = SPACE THEN LStrip(Tail(s)) ELSE s

RECURSIVE RStrip(_)
RStrip(s) ==
    IF s # <<>> /\ s[Len(s)] = SPACE THEN RStrip(SubSeq(s, 1, Len(s) - 1))
    ELSE s

\* str.strip()
Strip(s) == RStrip(LStrip(s))

\* a stripped key as a dictionary key: canonical keys are one word
KeyWord(s) == IF Len(s) = 1 THEN s[1] ELSE "?"

\* a variant of DepthBefore that does not track the depth of the brackets
DepthIgnored(s, i) == 0

\* depth when the loop of parse_attributes reaches the i-th character of s:
\* the "[" less the "]" among the characters before it
DepthBefore(s, i) ==
    Cardinality({j \in 1..(i - 1) : s[j] = LB})
        - Cardinality({j \in 1..(i - 1) : s[j] = RB})

\* the positions at which the loop meets ch with depth == 0
TopLevel(s, ch) == {i \in 1..Len(s) : s[i] = ch /\ DepthBefore(s, i) = 0}

\* the characters of s at the positions of at, in order
Pick(s, at) ==
    [n \in 1..Cardinality(at) |->
        s[CHOOSE i \in at : Cardinality({j \in at : j < i}) = n - 1]]

\* the stretches of s between two "," met with depth == 0 (commas holds
\* their positions), as pairs of the first and the last position; fin tells
\* the one after the last ","
Stretches(s, commas) ==
    {[from |-> a,
      to |-> IF \E c \in commas : c >= a
                 THEN (CHOOSE c \in commas :
                          c >= a /\ \A d \in commas : d >= a => c <= d) - 1
             ELSE Len(s),
      fin |-> ~\E c \in commas : c >= a] : a \in {1} \cup {c + 1 : c \in commas}}

\* key when the loop leaves the stretch g: the characters before the first
\* "=" met with depth == 0 (eqs holds their positions), which sets in_key
\* to False
StretchKey(s, g, eqs) ==
    Pick(s, {i \in g.from..g.to : ~\E e \in eqs : g.from <= e /\ e <= i})

\* value when the loop leaves the stretch g: the characters after that "=",
\* less every later "=" met with depth == 0
StretchValue(s, g, eqs) ==
    Pick(s, {i \in g.from..g.to :
                i \notin eqs /\ \E e \in eqs : g.from <= e /\ e < i})

\* the stretches whose pair is stored: every one ended by a ",", and the
\* last one if its key is not empty
Stored(s, commas, eqs) ==
    {g \in Stretches(s, commas) : ~g.fin \/ StretchKey(s, g, eqs) # <<>>}

\* remove the surrounding quotes of a value
Unquote(v) ==
    IF v # <<>> /\ v[1] = QUOTE /\ v[Len(v)] = QUOTE
    THEN SubSeq(v, 2, Len(v) - 1)
    ELSE v

\* the pairs that the loop stores, in order
ParsePairs(s, commas, eqs) ==
    {[from |-> g.from,
      key |-> KeyWord(Strip(StretchKey(s, g, eqs))),
      value |-> Strip(StretchValue(s, g, eqs))] : g \in Stored(s, commas, eqs)}

\* the dictionary after the assignments attr[key] = value of pairs, a later
\* pair replacing an earlier one of the same key, with the quotes removed
AttrOf(pairs) ==
    [k \in {q.key : q \in pairs} |->
        Unquote((CHOOSE q \in pairs :
                    /\ q.key = k
                    /\ \A r \in pairs : r.key = k => r.from <= q.from).value)]

\* parse_attributes
ParseAttributes(s) ==
    AttrOf(ParsePairs(s, TopLevel(s, COMMA), TopLevel(s, EQ)))

IsWord(t) == t \notin {LB, RB, EQ, COMMA, QUOTE, SPACE}

\* the position of the last "]" of s, 0 when there is none
LastRB(s) ==
    LET at == {i \in 1..Len(s) : s[i] = RB}
    IN  IF at = {} THEN 0 ELSE CHOOSE i \in at : \A j \in at : j <= i

\* re.match(r"(\w+)\[(.*)\]", string): the name is the leading run of word
\* characters, followed by "[", and the greedy group ends at the last "]"
RegexMatches(s) ==
    Len(s) >= 3 /\ IsWord(s[1]) /\ s[2] = LB /\ LastRB(s) >= 3

\* Block.from_string
FromString(s) ==
    IF ~RegexMatches(s)
    THEN Block0(KeyWord(Strip(s)))
    ELSE Block(s[1], ParseAttributes(SubSeq(s, 3, LastRB(s) - 1)))

----------------------------------------------------------------------------
(* The blocks of the program *)

On == <<"on">>
Off == <<"off">>

\* str(n) and int(s) for the power levels
PowerWords == <<"0", "1", "2", "3", "4", "5", "6", "7", "8", "9", "10",
                "11", "12", "13", "14", "15", "16">>

StrOfInt(n) == <<PowerWords[n + 1]>>

IntOfStr(s) == (CHOOSE i \in 1..Len(PowerWords) : PowerWords[i] = s[1]) - 1

Air == Block0("air")
Grass == Block0("grass")
Dirt == Block0("dirt")
Stone == Block0("stone")
Water == Block0("water")
Sand == Block0("sand")
Gravel == Block0("gravel")
RedstoneBlock == Block0("redstone_block")
StaticGravel == Block("gravel", [static |-> <<"T">>])
Dust(state, power) ==
    Block("redstone_dust", [state |-> state, power |-> StrOfInt(power)])
Repeater(state, orientation) ==
    Block("redstone_repeater",
          [state |-> state, orientation |-> <<orientation>>])
Lamp(state) == Block("redstone_lamp", [state |-> state])
Observer(state, orientation, last) ==
    Block("redstone_observer",
          [state |-> state, orientation |-> <<orientation>>, last |-> last])


----------------------------------------------------------------------------
(* update_world *)

Rows(w) == ListLen(w)

\* len(world[y])
Cols(w, y) == ListLen(w[y])

\* new_world[y][x] = b
SetCell(w, y, x, b) == [w EXCEPT ![y][x] = b]

\* new_world = [[block for block in row] for row in world]: fresh row
\* lists holding the same blocks
CopyGrid(w) == [y \in DOMAIN w |-> [x \in DOMAIN w[y] |-> w[y][x]]]

\* new_world = world: both names refer to one list of lists, so that a
\* write into new_world is a write into world
WorldAliased(w, new_world) == new_world

\* new_world is a list of lists of its own: the grid `world` refers to after
\* a statement has written into new_world is the grid it referred to before
WorldAfterWrite(w, new_world) == w

\* for dy in range(-1, 2): for dx in range(-1, 2)
NbrOffsets == << <<-1, -1>>, <<-1, 0>>, <<-1, 1>>,
                 << 0, -1>>, << 0, 0>>, << 0, 1>>,
                 << 1, -1>>, << 1, 0>>, << 1, 1>> >>

\* the bounds check of the neighbour loops
NbrInBounds(w, y, ny, nx) ==
    ~(ny < 0 \/ ny >= Rows(w) \/ nx < 0 \/ nx >= Cols(w, y))

\* the dirt rule without its test of the cell above: the cell counts as air
DirtAboveSkipped(w, y, x) == Block0("air")

\* world[y - 1][x] of the dirt rule: the subscript y - 1 is not checked, and
\* in row 0 it is -1, the last row
DirtAbove(w, y, x) == w[PyIndex(y - 1, Rows(w))][x]

\* whether the dirt rule at (y, x) reaches a random draw: some in-bounds
\* neighbour is grass and the cell the rule takes for the one above is air
DirtDraws(w, y, x) ==
    \E i \in 1..Len(NbrOffsets) :
        LET ny == y + NbrOffsets[i][1]
            nx == x + NbrOffsets[i][2]
        IN  /\ NbrInBounds(w, y, ny, nx)
            /\ DirtAbove(w, y, x).name = "air"
            /\ w[ny][nx].name = "grass"

\* Dirt to grass conversion; draws holds the cells for which at least one
\* random.random() < 0.1 came out true
DirtRule(w, nw, y, x, draws) ==
    IF DirtDraws(w, y, x) /\ <<y, x>> \in draws
    THEN SetCell(nw, y, x, Block0("grass"))
    ELSE nw

\* Grass to dirt conversion
GrassRule(w, nw, y, x) ==
    IF y - 1 >= 0 /\ w[y - 1][x].name # "air"
    THEN SetCell(nw, y, x, Block0("dirt"))
    ELSE nw

\* WaterRule with the sideways spreading outside the else branch: water
\* that falls spreads as well
WaterRuleAlwaysSpreads(w, nw, y, x) ==
    LET down  == IF y + 1 < Rows(w) /\ w[y + 1][x].name \in {"air", "water"}
                 THEN SetCell(nw, y + 1, x, Block0("water"))
                 ELSE nw
        left  == IF x - 1 >= 0 /\ w[y][x - 1].name = "air"
                 THEN SetCell(down, y, x - 1, Block0("water"))
                 ELSE down
    IN  IF x + 1 < Cols(w, y) /\ w[y][x + 1].name = "air"
        THEN SetCell(left, y, x + 1, Block0("water"))
        ELSE left

\* Water spreading logic
WaterRule(w, nw, y, x) ==
    IF y + 1 < Rows(w) /\ w[y + 1][x].name \in {"air", "water"}
    THEN SetCell(nw, y + 1, x, Block0("water"))
    ELSE LET left  == IF x - 1 >= 0 /\ w[y][x - 1].name = "air"
                      THEN SetCell(nw, y, x - 1, Block0("water"))
                      ELSE nw
         IN  IF x + 1 < Cols(w, y) /\ w[y][x + 1].name = "air"
             THEN SetCell(left, y, x + 1, Block0("water"))
             ELSE left

\* FallRule with the falling block's name written as "sand" instead of
\* world[y][x].name
FallRuleSandOnly(w, nw, y, x) ==
    IF /\ y + 1 < Rows(w)
       /\ w[y + 1][x].name = "air"
       /\ BlockGetattr(w[y][x], "static") # <<"T">>
    THEN SetCell(SetCell(nw, y + 1, x, Block0("sand")), y, x, Block0("air"))
    ELSE nw

\* FallRule without the statement that clears the cell the block leaves
FallRuleNoClear(w, nw, y, x) ==
    IF /\ y + 1 < Rows(w)
       /\ w[y + 1][x].name = "air"
       /\ BlockGetattr(w[y][x], "static") # <<"T">>
    THEN SetCell(nw, y + 1, x, Block0(w[y][x].name))
    ELSE nw

\* FallRule with water below treated like air: the block falls into it
FallRuleIntoWater(w, nw, y, x) ==
    IF /\ y + 1 < Rows(w)
       /\ w[y + 1][x].name \in {"air", "water"}
       /\ BlockGetattr(w[y][x], "static") # <<"T">>
    THEN SetCell(SetCell(nw, y + 1, x, Block0(w[y][x].name)),
                 y, x, Block0("air"))
    ELSE nw

\* FallRule without the test of the attribute static
FallRuleStaticFalls(w, nw, y, x) ==
    IF y + 1 < Rows(w) /\ w[y + 1][x].name = "air"
    THEN SetCell(SetCell(nw, y + 1, x, Block0(w[y][x].name)),
                 y, x, Block0("air"))
    ELSE nw

\* Sand and gravel falling logic
FallRule(w, nw, y, x) ==
    IF /\ y + 1 < Rows(w)
       /\ w[y + 1][x].name = "air"
       /\ BlockGetattr(w[y][x], "static") # <<"T">>
    THEN SetCell(SetCell(nw, y + 1, x, Block0(w[y][x].name)),
                 y, x, Block0("air"))
    ELSE nw

RECURSIVE GreatestPower(_, _, _, _, _)
\* the neighbour loop of the dust rule from NbrOffsets[i] on, with
\* greatest_power = g so far
GreatestPower(w, y, x, i, g) ==
    IF i > Len(NbrOffsets) THEN g
    ELSE LET ny == y + NbrOffsets[i][1]
             nx == x + NbrOffsets[i][2]
         IN  IF ~NbrInBounds(w, y, ny, nx) \/ (ny = y /\ nx = x)
             THEN GreatestPower(w, y, x, i + 1, g)
             ELSE LET g1 == IF w[ny][nx].name = "redstone_block"
                            THEN 16 ELSE g
                      g2 == IF /\ w[ny][nx].name = "redstone_dust"
                               /\ IntOfStr(BlockGetattr(w[ny][nx], "power")) > g1
                            THEN IntOfStr(BlockGetattr(w[ny][nx], "power"))
                            ELSE g1
                  IN  GreatestPower(w, y, x, i + 1, g2)

\* DustRule with the test greatest_power > 0: dust fed with power 1 stays
\* on with power 1
DustRuleKeepsOne(w, nw, y, x) ==
    LET greatest_power == GreatestPower(w, y, x, 1, 0)
    IN  IF greatest_power > 0
        THEN SetCell(nw, y, x,
                     Block("redstone_dust",
                           [state |-> On,
                            power |-> StrOfInt(IF greatest_power > 1
                                               THEN greatest_power - 1
                                               ELSE 1)]))
        ELSE SetCell(nw, y, x,
                     Block("redstone_dust",
                           [state |-> Off, power |-> <<"0">>]))

\* DustRule storing greatest_power itself instead of greatest_power - 1
DustRuleNoDecay(w, nw, y, x) ==
    LET greatest_power == GreatestPower(w, y, x, 1, 0)
    IN  IF greatest_power > 0
        THEN SetCell(nw, y, x,
                     Block("redstone_dust",
                           [state |-> On, power |-> StrOfInt(greatest_power)]))
        ELSE SetCell(nw, y, x,
                     Block("redstone_dust",
                           [state |-> Off, power |-> <<"0">>]))

\* Redstone dust power logic
DustRule(w, nw, y, x) ==
    LET greatest_power == GreatestPower(w, y, x, 1, 0)
    IN  IF greatest_power - 1 > 0
        THEN SetCell(nw, y, x,
                     Block("redstone_dust",
                           [state |-> On,
                            power |-> StrOfInt(greatest_power - 1)]))
        ELSE SetCell(nw, y, x,
                     Block("redstone_dust",
                           [state |-> Off, power |-> <<"0">>]))

\* behind = [x + 1, y] / [x - 1, y], [0, 0] for any other orientation
RepeaterBehind(orientation, y, x) ==
    IF orientation = <<"r">> THEN <<x - 1, y>>
    ELSE IF orientation = <<"l">> THEN <<x + 1, y>>
    ELSE <<0, 0>>

\* front = [x - 1, y] / [x + 1, y], [0, 0] for any other orientation
RepeaterFront(orientation, y, x) ==
    IF orientation = <<"r">> THEN <<x + 1, y>>
    ELSE IF orientation = <<"l">> THEN <<x - 1, y>>
    ELSE <<0, 0>>

\* p = [column, row] lies in the grid
PosInBounds(w, y, p) ==
    p[1] >= 0 /\ p[1] < Cols(w, y) /\ p[2] >= 0 /\ p[2] < Rows(w)

\* "If the block behind the repeater is powered, power the repeater"
RepeaterShouldPowerUp(w, y, x) ==
    LET behind == RepeaterBehind(BlockGetattr(w[y][x], "orientation"), y, x)
    IN  /\ PosInBounds(w, y, behind)
        /\ LET b == w[behind[2]][behind[1]]
           IN  \/ b.name = "redstone_dust" /\ BlockGetattr(b, "state") = On
               \/ b.name = "redstone_repeater" /\ BlockGetattr(b, "state") = On
               \/ b.name = "redstone_block"

\* RepeaterForcedState reading the state the rule has just computed for the
\* repeater instead of the state it had in the grid that was passed in
RepeaterForcedNewState(w, y, x) ==
    IF RepeaterShouldPowerUp(w, y, x) THEN On ELSE Off

\* the state the repeater at (y, x) forces on the block in front of it: the
\* state of the repeater in the grid that was passed in
RepeaterForcedState(w, y, x) ==
    IF BlockGetattr(w[y][x], "state") = On THEN On ELSE Off

\* "power the block in front of the repeater"
RepeaterForce(w, nw, y, x) ==
    LET orientation == BlockGetattr(w[y][x], "orientation")
        front == RepeaterFront(orientation, y, x)
        st == RepeaterForcedState(w, y, x)
    IN  IF ~PosInBounds(w, y, front) THEN nw
        ELSE LET f == w[front[2]][front[1]]
                 n1 == IF f.name = "redstone_dust"
                       THEN SetCell(nw, front[2], front[1],
                                Block("redstone_dust",
                                      [state |-> st,
                                       power |-> IF st = On THEN <<"15">>
                                                 ELSE <<"0">>]))
                       ELSE nw
             IN  IF f.name = "redstone_repeater"
                 THEN SetCell(n1, front[2], front[1],
                          Block("redstone_repeater",
                                [state |-> st, orientation |-> orientation]))
                 ELSE n1

\* Redstone repeater power logic
RepeaterRule(w, nw, y, x) ==
    LET own == SetCell(nw, y, x,
                   Block("redstone_repeater",
                         [state |-> IF RepeaterShouldPowerUp(w, y, x)
                                    THEN On ELSE Off,
                          orientation |-> BlockGetattr(w[y][x], "orientation")]))
    IN  RepeaterForce(w, own, y, x)

\* whether the neighbour (ny, nx) lights the lamp at (y, x)
LampLitBy(w, y, x, ny, nx) ==
    LET b == w[ny][nx]
    IN  \/ b.name = "redstone_block"
        \/ b.name = "redstone_dust" /\ BlockGetattr(b, "state") = On
        \/ b.name = "redstone_repeater" /\ BlockGetattr(b, "state") = On
        \/ /\ b.name = "redstone_observer"
           /\ BlockGetattr(b, "state") = On
           /\ LET orientation == BlockGetattr(b, "orientation")
              IN  \/ orientation = <<"l">> /\ nx = x - 1
                  \/ orientation = <<"r">> /\ nx = x + 1
                  \/ orientation = <<"u">> /\ ny = y - 1
                  \/ orientation = <<"d">> /\ ny = y + 1

\* Redstone lamp power logic
LampRule(w, nw, y, x) ==
    LET should_power_up ==
            \E i \in 1..Len(NbrOffsets) :
                LET ny == y + NbrOffsets[i][1]
                    nx == x + NbrOffsets[i][2]
                IN  /\ NbrInBounds(w, y, ny, nx)
                    /\ ~(ny = y /\ nx = x)
                    /\ LampLitBy(w, y, x, ny, nx)
    IN  SetCell(nw, y, x,
                Block("redstone_lamp",
                      [state |-> IF should_power_up THEN On ELSE Off]))

\* the cell the observer at (y, x) faces, as <<row, col>>, and whether the
\* code's check lets it be read
ObserverFaced(orientation, y, x) ==
    IF orientation = <<"l">> THEN <<y, x - 1>>
    ELSE IF orientation = <<"r">> THEN <<y, x + 1>>
    ELSE IF orientation = <<"u">> THEN <<y - 1, x>>
    ELSE <<y + 1, x>>

ObserverFacedOk(w, orientation, y, x) ==
    \/ orientation = <<"l">> /\ x - 1 >= 0
    \/ orientation = <<"r">> /\ x + 1 < Cols(w, y)
    \/ orientation = <<"u">> /\ y - 1 >= 0
    \/ orientation = <<"d">> /\ y + 1 < Rows(w)

\* should_power_up of the observer rule
ObserverFires(w, y, x) ==
    LET orientation == BlockGetattr(w[y][x], "orientation")
        last_block == FromString(BlockGetattr(w[y][x], "last"))
        f == ObserverFaced(orientation, y, x)
    IN  /\ ObserverFacedOk(w, orientation, y, x)
        /\ BlockNe(w[f[1]][f[2]], last_block)

\* power_dir = [column, row] of the cell behind the observer
ObserverPowerDir(orientation, y, x) ==
    IF orientation = <<"l">> THEN <<x + 1, y>>
    ELSE IF orientation = <<"r">> THEN <<x - 1, y>>
    ELSE IF orientation = <<"d">> THEN <<x, y - 1>>
    ELSE IF orientation = <<"u">> THEN <<x, y + 1>>
    ELSE <<0, 0>>

\* "Make nearby blocks power up"
ObserverPulse(w, nw, y, x) ==
    LET orientation == BlockGetattr(w[y][x], "orientation")
        power_dir == ObserverPowerDir(orientation, y, x)
    IN  IF ~PosInBounds(w, y, power_dir) THEN nw
        ELSE LET b == w[power_dir[2]][power_dir[1]]
             IN  IF b.name = "redstone_dust"
                 THEN SetCell(nw, power_dir[2], power_dir[1],
                          Block("redstone_dust",
                                [state |-> On, power |-> <<"15">>]))
                 ELSE IF b.name = "redstone_repeater"
                 THEN SetCell(nw, power_dir[2], power_dir[1],
                          Block("redstone_repeater",
                                [state |-> On, orientation |-> orientation]))
                 ELSE IF b.name = "redstone_lamp"
                 THEN SetCell(nw, power_dir[2], power_dir[1],
                          Block("redstone_lamp", [state |-> On]))
                 ELSE nw

\* ObserverRule without new_last: the observer that fires keeps its last
ObserverRuleKeepsLast(w, nw, y, x) ==
    LET own == SetCell(nw, y, x,
                   Block("redstone_observer",
                         [state |-> IF ObserverFires(w, y, x) THEN On ELSE Off,
                          orientation |-> BlockGetattr(w[y][x], "orientation"),
                          last |-> BlockGetattr(w[y][x], "last")]))
    IN  IF ObserverFires(w, y, x) THEN ObserverPulse(w, own, y, x) ELSE own

\* Redstone observer power logic
ObserverRule(w, nw, y, x) ==
    LET orientation == BlockGetattr(w[y][x], "orientation")
        last == BlockGetattr(w[y][x], "last")
        f == ObserverFaced(orientation, y, x)
        should_power_up == ObserverFires(w, y, x)
        new_last == IF should_power_up THEN Repr(w[f[1]][f[2]]) ELSE last
        own == SetCell(nw, y, x,
                   Block("redstone_observer",
                         [state |-> IF should_power_up THEN On ELSE Off,
                          orientation |-> orientation,
                          last |-> new_last]))
    IN  IF should_power_up THEN ObserverPulse(w, own, y, x) ELSE own

\* CellRules with the sand and gravel rule gated by tick % 5 instead of
\* tick % 10
CellRulesFallEveryFive(w, nw, y, x, t, draws) ==
    LET name == w[y][x].name
    IN  IF name = "dirt" THEN DirtRule(w, nw, y, x, draws)
        ELSE IF name = "grass" THEN GrassRule(w, nw, y, x)
        ELSE IF name = "water" /\ t % 15 = 0 THEN WaterRule(w, nw, y, x)
        ELSE IF name \in {"sand", "gravel"} /\ t % 5 = 0
            THEN FallRule(w, nw, y, x)
        ELSE IF name = "redstone_dust" /\ t % 2 = 0 THEN DustRule(w, nw, y, x)
        ELSE IF name = "redstone_repeater" /\ t % 2 = 0
            THEN RepeaterRule(w, nw, y, x)
        ELSE IF name = "redstone_lamp" /\ t % 2 = 0 THEN LampRule(w, nw, y, x)
        ELSE IF name = "redstone_observer" /\ t % 2 = 0
            THEN ObserverRule(w, nw, y, x)
        ELSE nw

\* the body of the loop over the cells: the rules of the cell (y, x), which
\* read w and write into nw
CellRules(w, nw, y, x, t, draws) ==
    LET name == w[y][x].name
    IN  IF name = "dirt" THEN DirtRule(w, nw, y, x, draws)
        ELSE IF name = "grass" THEN GrassRule(w, nw, y, x)
        ELSE IF name = "water" /\ t % 15 = 0 THEN WaterRule(w, nw, y, x)
        ELSE IF name \in {"sand", "gravel"} /\ t % 10 = 0
            THEN FallRule(w, nw, y, x)
        ELSE IF name = "redstone_dust" /\ t % 2 = 0 THEN DustRule(w, nw, y, x)
        ELSE IF name = "redstone_repeater" /\ t % 2 = 0
            THEN RepeaterRule(w, nw, y, x)
        ELSE IF name = "redstone_lamp" /\ t % 2 = 0 THEN LampRule(w, nw, y, x)
        ELSE IF name = "redstone_observer" /\ t % 2 = 0
            THEN ObserverRule(w, nw, y, x)
        ELSE nw

\* the cells in the order of the two loops, y outermost: the k-th cell of a
\* grid of n columns
ScanRow(k, n) == k \div n
ScanCol(k, n) == k % n

RECURSIVE ScanFrom(_, _, _, _)
\* the two loops from the k-th cell on; st holds the grids the names world
\* and new_world refer to
ScanFrom(st, k, t, draws) ==
    IF Rows(st.world) = 0 \/ k >= Rows(st.world) * Cols(st.world, 0) THEN st
    ELSE LET y  == ScanRow(k, Cols(st.world, 0))
             x  == ScanCol(k, Cols(st.world, 0))
             nw == CellRules(st.world, st.new_world, y, x, t, draws)
         IN  ScanFrom([world |-> WorldAfterWrite(st.world, nw),
                       new_world |-> nw], k + 1, t, draws)

\* update_world(world, tick): the grids world and new_world refer to when
\* the function returns new_world
UpdateWorldRun(w, t, draws) ==
    ScanFrom([world |-> w, new_world |-> CopyGrid(w)], 0, t, draws)

UpdateWorld(w, t, draws) == UpdateWorldRun(w, t, draws).new_world

\* the cells of w whose dirt rule draws a random number
DrawCells(w) ==
    {p \in (DOMAIN w) \X (DOMAIN w[0]) :
        w[p[1]][p[2]].name = "dirt" /\ DirtDraws(w, p[1], p[2])}

----------------------------------------------------------------------------
(* The driver: world = update_world(world, tick); tick += 1 *)

\* history: the cells into which a sand block of w fell in the tick t that
\* produced post, and in which it is blocked in post
NewlyLanded(w, post, t) ==
    {p \in (DOMAIN w) \X (DOMAIN w[0]) :
        /\ t % 10 = 0
        /\ p[1] >= 1
        /\ w[p[1] - 1][p[2]].name = "sand"
        /\ w[p[1]][p[2]].name = "air"
        /\ post[p[1]][p[2]].name = "sand"
        /\ (p[1] + 1 >= Rows(post) \/ post[p[1] + 1][p[2]].name # "air")}

\* one tick of the driver, which stops counting at limit
Tick(limit) ==
    /\ tick < limit
    /\ \E draws \in SUBSET DrawCells(world) :
        LET run == UpdateWorldRun(world, tick, draws)
        IN  /\ world' = run.new_world
            /\ arg' = run.world
            /\ call' = [op |-> "tick", tick |-> tick, draws |-> draws]
            /\ landed' = landed \cup NewlyLanded(world, run.new_world, tick)
    /\ pre' = world
    /\ ret' = "ok"
    /\ tick' = tick + 1

----------------------------------------------------------------------------
(* Initial grids *)

\* the grid of h rows and w columns that holds f[p] in the cells p of
\* DOMAIN f and air elsewhere
GridOf(h, w, f) ==
    [y \in 0..(h - 1) |->
        [x \in 0..(w - 1) |-> IF <<y, x>> \in DOMAIN f THEN f[<<y, x>>]
                              ELSE Air]]

\* the grids of h rows and w columns with at most k blocks of palette placed
\* in air
Grids(h, w, palette, k) ==
    UNION {{GridOf(h, w, f) : f \in [S -> palette]} :
              S \in {T \in SUBSET ((0..(h - 1)) \X (0..(w - 1))) :
                        Cardinality(T) <= k}}

\* the state in which the driver starts ticking the grid g
InitWith(g) ==
    /\ world = g
    /\ tick = 0
    /\ pre = g
    /\ arg = g
    /\ call = [op |-> "init"]
    /\ ret = "ok"
    /\ landed = {}

\* the driver starts ticking one of the grids of Grids(h, w, palette, k),
\* chosen cell by cell
InitGrids(h, w, palette, k) ==
    \E S \in {T \in SUBSET ((0..(h - 1)) \X (0..(w - 1))) :
                  Cardinality(T) <= k} :
        \E f \in [S -> palette] : InitWith(GridOf(h, w, f))

----------------------------------------------------------------------------
(* Sand, air and inert blocks *)

SandRows == 5
SandCols == 1
SandBlocks == 3
SandTicks == 21

SandPalette == {Sand, Stone}

InitSand == InitGrids(SandRows, SandCols, SandPalette, SandBlocks)

NextSand == Tick(SandTicks)

SpecSand == InitSand /\ [][NextSand]_vars

----------------------------------------------------------------------------
(* Claims about falling sand *)

AllCells(w) == (DOMAIN w) \X (DOMAIN w[0])

OnlySandAirInert(w) ==
    \A p \in AllCells(w) : w[p[1]][p[2]].name \in {"sand", "air", "stone"}

\* what a grid of sand, air and inert blocks holds in (y, x) after tick t,
\* stated cell by cell on the grid before the tick
SandStepCell(w, t, y, x) ==
    IF t % 10 # 0 THEN w[y][x]
    ELSE IF /\ w[y][x].name = "sand"
            /\ y + 1 < Rows(w)
            /\ w[y + 1][x].name = "air"
        THEN Air
    ELSE IF w[y][x].name = "air" /\ y >= 1 /\ w[y - 1][x].name = "sand"
        THEN Sand
    ELSE w[y][x]

\* every cell from (y, x) down to the bottom row is non-air
Supported(w, y, x) == \A r \in y..(Rows(w) - 1) : w[r][x].name # "air"

SandMovesOneRow ==
    (call.op = "tick" /\ OnlySandAirInert(pre)) =>
        \A p \in AllCells(pre) :
            world[p[1]][p[2]] = SandStepCell(pre, call.tick, p[1], p[2])

----------------------------------------------------------------------------
(* Grids that mix the rule families *)

MixedRows == 2
MixedCols == 2
MixedBlocks == 2
MixedTicks == 2

AirText == Repr(Air)

MixedPalette ==
    {Grass, Water, Sand, Gravel, Dust(Off, 0), Repeater(On, "l")}

InitMixed == InitGrids(MixedRows, MixedCols, MixedPalette, MixedBlocks)

NextMixed == Tick(MixedTicks)

SpecMixed == InitMixed /\ [][NextMixed]_vars

RECURSIVE FrozenScan(_, _, _, _, _)
\* the loop over the cells from the k-th cell on, every rule reading the
\* fixed grid w
FrozenScan(w, nw, k, t, draws) ==
    IF Rows(w) = 0 \/ k >= Rows(w) * Cols(w, 0) THEN nw
    ELSE FrozenScan(w,
                    CellRules(w, nw, ScanRow(k, Cols(w, 0)),
                              ScanCol(k, Cols(w, 0)), t, draws),
                    k + 1, t, draws)

\* C1: update_world is a snapshot-consistent update: the grid passed in is
\* unchanged cell for cell when the call returns, and the returned grid is
\* the one obtained when every rule reads the pre-tick grid only.
C1_SnapshotUpdate ==
    call.op = "tick" =>
        /\ arg = pre
        /\ world = FrozenScan(pre, pre, 0, call.tick, call.draws)

\* a tick has written at least two cells
C1_Witness ==
    /\ call.op = "tick"
    /\ Cardinality({p \in AllCells(pre) :
                       world[p[1]][p[2]] # pre[p[1]][p[2]]}) >= 2

NamesOf(w) == {w[p[1]][p[2]].name : p \in AllCells(w)}

TickNames ==
    {"air", "grass", "dirt", "water", "redstone_dust", "redstone_repeater",
     "redstone_lamp", "redstone_observer"}

IsBlock(b) == DOMAIN b = {"name", "attr"}

\* C2: a tick keeps the number of rows and the number of columns of every
\* row, every cell of the result holds one Block, and every block name is a
\* name the grid held before the tick or one of air, grass, dirt, water and
\* the redstone component names.
C2_GridShape ==
    call.op = "tick" =>
        /\ DOMAIN world = DOMAIN pre
        /\ \A y \in DOMAIN pre : DOMAIN world[y] = DOMAIN pre[y]
        /\ \A p \in AllCells(pre) :
               /\ IsBlock(world[p[1]][p[2]])
               /\ world[p[1]][p[2]].name \in NamesOf(pre) \cup TickNames

\* a tick has moved a gravel block: the name it wrote is one it read
C2_Witness ==
    /\ call.op = "tick"
    /\ \E p \in AllCells(pre) :
           /\ pre[p[1]][p[2]].name = "air"
           /\ world[p[1]][p[2]].name = "gravel"

Falling(b) ==
    b.name \in {"sand", "gravel"} /\ BlockGetattr(b, "static") # <<"T">>

GranularCount(w) ==
    Cardinality({p \in AllCells(w) : w[p[1]][p[2]].name \in {"sand", "gravel"}})

\* C4: on a tick with tick % 10 = 0, every sand or non-static gravel cell
\* with air directly below in the pre-tick grid is air after the tick and
\* the cell below holds the same material; the number of sand and gravel
\* blocks is unchanged.
C4_FallConserves ==
    (call.op = "tick" /\ call.tick % 10 = 0) =>
        /\ \A p \in AllCells(pre) :
               (/\ Falling(pre[p[1]][p[2]])
                /\ p[1] + 1 < Rows(pre)
                /\ pre[p[1] + 1][p[2]].name = "air")
                   => /\ world[p[1]][p[2]].name = "air"
                      /\ world[p[1] + 1][p[2]].name = pre[p[1]][p[2]].name
        /\ GranularCount(world) = GranularCount(pre)

----------------------------------------------------------------------------
(* Redstone rows *)

RsRows == 3
RsCols == 3
RsTicks == 2

StoneText == Repr(Stone)

RsPalette ==
    {Air, Stone, RedstoneBlock, Dust(Off, 0), Dust(On, 15),
     Repeater(Off, "l"), Repeater(On, "l"), Repeater(Off, "r"),
     Repeater(On, "r"), Observer(Off, "l", AirText)}

\* what may lie under the first cell of the row
RsBelow == {Air, Observer(Off, "d", AirText), Observer(Off, "d", StoneText)}

\* the grids whose top row is any row of RsPalette, with an optional
\* observer facing down under its first cell and an optional stone under
\* that observer
RsGrid(top, below, under) ==
    GridOf(RsRows, RsCols,
           [p \in ({0} \X (0..(RsCols - 1))) \cup {<<1, 0>>, <<2, 0>>} |->
               IF p[1] = 0 THEN top[p[2]]
               ELSE IF p[1] = 1 THEN below ELSE under])

InitRedstone ==
    \E top \in [0..(RsCols - 1) -> RsPalette] :
        \E below \in RsBelow : \E under \in {Air, Stone} :
            InitWith(RsGrid(top, below, under))

NextRedstone == Tick(RsTicks)

SpecRedstone == InitRedstone /\ [][NextRedstone]_vars

IsDust(b) == b.name = "redstone_dust"
IsRepeater(b) == b.name = "redstone_repeater"
IsObserver(b) == b.name = "redstone_observer"
IsOn(b) == BlockGetattr(b, "state") = On
Facing(b, o) == BlockGetattr(b, "orientation") = <<o>>

\* the repeater at (y, x) of w faces left, the dust right of it is on and
\* the cell left of it holds dust
BackedLeftRepeater(w, y, x) ==
    /\ IsRepeater(w[y][x]) /\ Facing(w[y][x], "l")
    /\ x + 1 < Cols(w, y) /\ IsDust(w[y][x + 1]) /\ IsOn(w[y][x + 1])
    /\ x - 1 >= 0 /\ IsDust(w[y][x - 1])

\* a firing observer that faces down lies directly below (y, x)
PulsedFromBelow(w, y, x) ==
    /\ y + 1 < Rows(w)
    /\ IsObserver(w[y + 1][x]) /\ Facing(w[y + 1][x], "d")
    /\ ObserverFires(w, y + 1, x)

RepeatersLeftOrRight(w) ==
    \A p \in AllCells(w) :
        IsRepeater(w[p[1]][p[2]])
            => (Facing(w[p[1]][p[2]], "l") \/ Facing(w[p[1]][p[2]], "r"))

\* C5 (as amended): on a tick with tick % 2 = 0, in a grid whose repeaters
\* face left or right, a repeater facing left whose right neighbour is dust
\* that is on and whose left neighbour is dust is a repeater that is on
\* after the tick; its left neighbour is dust with state on and power 15
\* after the tick if the repeater was on before the tick or a firing
\* observer facing down lies directly below that neighbour, and dust with
\* state off and power 0 otherwise.
C5_RepeaterForcesByOldState ==
    (call.op = "tick" /\ call.tick % 2 = 0 /\ RepeatersLeftOrRight(pre)) =>
        \A p \in AllCells(pre) :
            BackedLeftRepeater(pre, p[1], p[2]) =>
                /\ IsRepeater(world[p[1]][p[2]]) /\ IsOn(world[p[1]][p[2]])
                /\ world[p[1]][p[2] - 1] =
                       IF \/ IsOn(pre[p[1]][p[2]])
                          \/ PulsedFromBelow(pre, p[1], p[2] - 1)
                       THEN Dust(On, 15) ELSE Dust(Off, 0)

\* a repeater that was off with its back powered has turned on in the last
\* tick, and the dust in front of it is off
C5_Witness ==
    /\ call.op = "tick" /\ call.tick % 2 = 0
    /\ \E p \in AllCells(pre) :
           /\ BackedLeftRepeater(pre, p[1], p[2])
           /\ ~IsOn(pre[p[1]][p[2]])
           /\ IsOn(world[p[1]][p[2]])
           /\ world[p[1]][p[2] - 1] = Dust(Off, 0)

\* C5 (as stated): whatever the repeater's own state before the tick, after
\* the tick it is on and its left neighbour is dust with state on and
\* power 15.
C5_RepeaterForcesSameTick ==
    (call.op = "tick" /\ call.tick % 2 = 0) =>
        \A p \in AllCells(pre) :
            BackedLeftRepeater(pre, p[1], p[2]) =>
                /\ IsRepeater(world[p[1]][p[2]]) /\ IsOn(world[p[1]][p[2]])
                /\ world[p[1]][p[2] - 1] = Dust(On, 15)

\* the column a repeater at column x faces: x - 1 for l, x + 1 for r
FacedCol(b, x) == IF Facing(b, "l") THEN x - 1 ELSE x + 1

\* C6: on a tick with tick % 2 = 0, for a repeater facing l or r whose
\* faced cell is in bounds and holds dust, that cell is dust with state on
\* and power 15 after the tick if the repeater was on before it, and dust
\* with state off and power 0 if the repeater was off.
C6_RepeaterForcesFront ==
    (call.op = "tick" /\ call.tick % 2 = 0) =>
        \A p \in AllCells(pre) :
            LET b == pre[p[1]][p[2]]
            IN  (/\ IsRepeater(b)
                 /\ (Facing(b, "l") \/ Facing(b, "r"))
                 /\ FacedCol(b, p[2]) \in DOMAIN pre[p[1]]
                 /\ IsDust(pre[p[1]][FacedCol(b, p[2])]))
                    => world[p[1]][FacedCol(b, p[2])] =
                           IF IsOn(b) THEN Dust(On, 15) ELSE Dust(Off, 0)

\* the cell behind an observer at (y, x), opposite the cell it faces
BehindCell(b, y, x) ==
    IF Facing(b, "l") THEN <<y, x + 1>>
    ELSE IF Facing(b, "r") THEN <<y, x - 1>>
    ELSE IF Facing(b, "u") THEN <<y + 1, x>>
    ELSE <<y - 1, x>>

\* C7: on a tick with tick % 2 = 0, when an observer fires, the cell behind
\* it, if in bounds, is after the tick dust with state on and power 15 if
\* it held dust, a repeater that is on if it held a repeater, and a lamp
\* that is on if it held a lamp.
C7_ObserverPulsesBehind ==
    (call.op = "tick" /\ call.tick % 2 = 0) =>
        \A p \in AllCells(pre) :
            (IsObserver(pre[p[1]][p[2]]) /\ ObserverFires(pre, p[1], p[2])) =>
                LET q == BehindCell(pre[p[1]][p[2]], p[1], p[2])
                IN  q \in AllCells(pre) =>
                        LET old == pre[q[1]][q[2]]
                            new == world[q[1]][q[2]]
                        IN  /\ IsDust(old) => new = Dust(On, 15)
                            /\ IsRepeater(old)
                                   => (IsRepeater(new) /\ IsOn(new))
                            /\ old.name = "redstone_lamp" => new = Lamp(On)

----------------------------------------------------------------------------
(* Soil *)

SoilRows == 3
SoilCols == 2
SoilBlocks == 2
SoilTicks == 2

SoilPalette == {Dirt, Grass, Stone}

InitSoil == InitGrids(SoilRows, SoilCols, SoilPalette, SoilBlocks)

NextSoil == Tick(SoilTicks)

SpecSoil == InitSoil /\ [][NextSoil]_vars

\* q is neither p nor one of the eight neighbours of p
FarFrom(p, q) ==
    \/ q[1] - p[1] > 1 \/ p[1] - q[1] > 1
    \/ q[2] - p[2] > 1 \/ p[2] - q[2] > 1

\* C9: a position outside the grid is skipped in every neighbour lookup and
\* never stands for another cell: in a grid of soil, stone and air the
\* outcome of a tick for a cell depends only on the cell and its in-bounds
\* neighbours, so replacing the block of any other cell leaves it as it
\* is; in particular the outcome for a dirt cell in row 0 does not depend
\* on the bottom row.
C9_NoAliasedNeighbour ==
    call.op = "tick" =>
        \A p \in AllCells(pre) : \A q \in AllCells(pre) :
            FarFrom(p, q) =>
                \A b \in SoilPalette \cup {Air} :
                    UpdateWorld(SetCell(pre, q[1], q[2], b),
                                call.tick, call.draws)[p[1]][p[2]]
                        = world[p[1]][p[2]]

----------------------------------------------------------------------------
(* StructureManager.place_structure *)

\* the Python list of the elements of the sequence s
ListOf(s) == [i \in 0..(Len(s) - 1) |-> s[i + 1]]

\* a structure_dict; rows are given top to bottom, one character per cell
Structure(keys, rows, placepoint) ==
    [keys |-> keys,
     dim |-> ListOf(<<Len(rows[1]), Len(rows)>>),
     structure |-> ListOf([i \in 1..Len(rows) |-> ListOf(rows[i])]),
     placepoint |-> ListOf(placepoint)]

TreeKeys == ("s" :> "oak_log") @@ ("l" :> "oak_leaves") @@ (" " :> "air")

\* the structure of the comment in place_structure
OakTree ==
    Structure(TreeKeys,
              << <<" ", "l", "l", "l", " ">>,
                 <<" ", "l", "l", "l", " ">>,
                 <<"l", "l", "l", "l", "l">>,
                 <<"l", "l", "l", "l", "l">>,
                 <<" ", " ", "s", " ", " ">>,
                 <<" ", " ", "s", " ", " ">>,
                 <<" ", " ", "s", " ", " ">> >>,
              <<2, 6>>)

\* a row of two logs around a gap, anchored at the gap
Beam == Structure(TreeKeys, << <<"s", " ", "s">> >>, <<1, 0>>)

\* a structure with a character that its keys do not hold
Bush == Structure(TreeKeys, << <<"l", "x">>, <<" ", "l">> >>, <<0, 1>>)

\* world[row][col] = b, with Python's subscripts: st holds the grid and
\* whether an IndexError was raised
PySetCell(st, row, col, b) ==
    IF st.raised THEN st
    ELSE IF ~PyIndexOk(row, Rows(st.world))
        THEN [st EXCEPT !.raised = TRUE]
    ELSE LET r == PyIndex(row, Rows(st.world))
         IN  IF ~PyIndexOk(col, Cols(st.world, r))
                 THEN [st EXCEPT !.raised = TRUE]
             ELSE [st EXCEPT
                      !.world = SetCell(st.world, r,
                                        PyIndex(col, Cols(st.world, r)), b)]

\* PlaceCell without the test for air: a character that maps to air
\* writes an air block
PlaceCellWritesAir(st, s, x, y, dx, dy) ==
    IF st.raised THEN st
    ELSE IF x + dx >= Cols(st.world, 0) \/ y + dy >= Rows(st.world) THEN st
    ELSE IF s.structure[dy][dx] \notin DOMAIN s.keys THEN st
    ELSE PySetCell(st, y + dy, x + dx, Block0(s.keys[s.structure[dy][dx]]))

\* the body of the two loops of place_structure for (dx, dy); x and y are
\* the anchor less the placepoint
PlaceCell(st, s, x, y, dx, dy) ==
    IF st.raised THEN st
    ELSE IF x + dx >= Cols(st.world, 0) \/ y + dy >= Rows(st.world) THEN st
    ELSE IF s.structure[dy][dx] \notin DOMAIN s.keys THEN st
    ELSE IF s.keys[s.structure[dy][dx]] = "air" THEN st
    ELSE PySetCell(st, y + dy, x + dx, Block0(s.keys[s.structure[dy][dx]]))

RECURSIVE PlaceLoop(_, _, _, _, _)
\* for dx in range(dim[0]): for dy in range(dim[1]), from the k-th pair on
PlaceLoop(st, s, x, y, k) ==
    IF k >= s.dim[0] * s.dim[1] THEN st
    ELSE PlaceLoop(PlaceCell(st, s, x, y, k \div s.dim[1], k % s.dim[1]),
                   s, x, y, k + 1)

\* place_structure(world, structure_dict, x, y): the grid, written in
\* place, and whether the call raised IndexError
PlaceStructure(w, s, x, y) ==
    PlaceLoop([world |-> w, raised |-> FALSE], s,
              x - s.placepoint[0], y - s.placepoint[1], 0)

PlaceRows == 3
PlaceCols == 3
PlaceBlocks == 1
PlaceMargin == 2

Templates == {OakTree, Beam, Bush}

\* one call world = place_structure(world, s, x, y) on a grid that has not
\* been stamped yet
Place ==
    /\ call.op = "init"
    /\ \E s \in Templates :
       \E x \in (0 - PlaceMargin)..(PlaceCols - 1 + PlaceMargin) :
       \E y \in (0 - PlaceMargin)..(PlaceRows - 1 + PlaceMargin) :
        LET st == PlaceStructure(world, s, x, y)
        IN  /\ world' = st.world
            /\ arg' = st.world
            /\ ret' = IF st.raised THEN "IndexError" ELSE "ok"
            /\ call' = [op |-> "place", structure |-> s, x |-> x, y |-> y]
    /\ pre' = world
    /\ UNCHANGED <<tick, landed>>

InitPlace == \E g \in Grids(PlaceRows, PlaceCols, {Stone}, PlaceBlocks) :
                 InitWith(g)

NextPlace == Place

SpecPlace == InitPlace /\ [][NextPlace]_vars

\* the template cell (dx, dy) of call.structure lands on the cell p of the
\* grid, without any wrapping of its position
LandsOn(c, dx, dy, p) ==
    /\ c.x - c.structure.placepoint[0] + dx = p[2]
    /\ c.y - c.structure.placepoint[1] + dy = p[1]

\* C8: place_structure raises no error for any anchor, and writes only
\* cells on which a template cell lands: a template cell whose position is
\* negative or past the end is skipped and lands on no other cell.
C8_PlaceSkipsOutside ==
    call.op = "place" =>
        /\ ret = "ok"
        /\ \A p \in AllCells(pre) :
               world[p[1]][p[2]] # pre[p[1]][p[2]] =>
                   \E dx \in 0..(call.structure.dim[0] - 1) :
                   \E dy \in 0..(call.structure.dim[1] - 1) :
                       LandsOn(call, dx, dy, p)

----------------------------------------------------------------------------
(* WorldGenerator.generate *)

\* A noise field is held as its value normalised to [0, 1], in percent:
\* p stands for the noise value 2 * p / 100 - 1.

\* map_noise_to_height: int(normalised * height)
MapNoiseToHeight(p, height) == (p * height) \div 100

\* cave_noise > 0.5, which is a normalised value above 0.75
CaveLevel == 75

\* orethresholds, in the order of the dict
OreThresholds ==
    << [ore |-> "diamond_ore", threshold |-> 70],
       [ore |-> "gold_ore", threshold |-> 60],
       [ore |-> "iron_ore", threshold |-> 50],
       [ore |-> "coal_ore", threshold |-> 30] >>

\* gravelmap[x][y] > 0.7
GravelLevel == 70

RECURSIVE FirstOre(_, _)
\* the first entry of orethresholds from the k-th on whose threshold p
\* exceeds, where the loop breaks; 0 when there is none
FirstOre(p, k) ==
    IF k > Len(OreThresholds) THEN 0
    ELSE IF p > OreThresholds[k].threshold THEN k
    ELSE FirstOre(p, k + 1)

\* whether random.random() < 0.3 - y / height can succeed
OreChance(y, height) == 10 * y < 3 * height

TerrainHeight(noise, x, height) == MapNoiseToHeight(noise[x][0], height) - 2

IsCave(noise, x, y) == noise[x][y] > CaveLevel

\* the branch elif y < terrain_height and not is_cave
BelowBand(noise, x, y, height) ==
    /\ ~(y = TerrainHeight(noise, x, height) /\ ~IsCave(noise, x, y))
    /\ ~(/\ y > TerrainHeight(noise, x, height) - 3
         /\ y < TerrainHeight(noise, x, height)
         /\ ~IsCave(noise, x, y))
    /\ y < TerrainHeight(noise, x, height)
    /\ ~IsCave(noise, x, y)

\* whether the ore loop appends an ore at (x, y): lucky holds the cells
\* whose random draw is under its bound
AddsOre(noise, x, y, height, lucky) ==
    /\ FirstOre(noise[x][y], 1) > 0
    /\ OreChance(y, height)
    /\ <<x, y>> \in lucky

\* the blocks that the body of the loop over y appends to column
GenCell(column, noise, gravel, lucky, x, y, height) ==
    LET terrain_height == TerrainHeight(noise, x, height)
        waterlevel == height \div 3
        is_cave == IsCave(noise, x, y)
        addOre == AddsOre(noise, x, y, height, lucky)
        addGravel == gravel[x][y] > GravelLevel
        withOre ==
            IF addOre
                THEN ListAppend(column,
                         Block0(OreThresholds[FirstOre(noise[x][y], 1)].ore))
            ELSE column
        withGravel ==
            IF addGravel THEN ListAppend(withOre, StaticGravel) ELSE withOre
    IN  IF y = terrain_height /\ ~is_cave
            THEN ListAppend(column, IF y < waterlevel THEN Sand ELSE Grass)
        ELSE IF y > terrain_height - 3 /\ y < terrain_height /\ ~is_cave
            THEN ListAppend(column, Dirt)
        ELSE IF y < terrain_height /\ ~is_cave
            THEN IF addOre \/ addGravel THEN withGravel
                 ELSE ListAppend(column, Stone)
        ELSE ListAppend(column, IF y < waterlevel THEN Water ELSE Air)

RECURSIVE GenColumn(_, _, _, _, _, _, _)
\* the loop over y of one column, from y on
GenColumn(column, noise, gravel, lucky, x, y, height) ==
    IF y >= height THEN column
    ELSE GenColumn(GenCell(column, noise, gravel, lucky, x, y, height),
                   noise, gravel, lucky, x, y + 1, height)

\* the list of columns before it is transposed
GenColumns(noise, gravel, lucky, width, height) ==
    [x \in 0..(width - 1) |->
        GenColumn(EmptyList, noise, gravel, lucky, x, 0, height)]

\* the least length of the lists of l
MinLen(l) ==
    CHOOSE n \in {ListLen(l[i]) : i \in DOMAIN l} :
        \A i \in DOMAIN l : n <= ListLen(l[i])

\* list(map(list, zip(*world))): zip stops at the shortest column
Transpose(cols) ==
    IF ListLen(cols) = 0 THEN EmptyList
    ELSE [y \in 0..(MinLen(cols) - 1) |-> [x \in DOMAIN cols |-> cols[x][y]]]

\* world[::-1]
Flip(w) == [y \in DOMAIN w |-> w[ListLen(w) - 1 - y]]

RECURSIVE GenTrees(_, _, _, _, _)
\* the loops that scatter trees, from the k-th pair (x, y) on: trees holds
\* the cells whose random draw is under 0.1
GenTrees(st, trees, k, width, height) ==
    IF k >= width * height \/ st.raised THEN st
    ELSE LET x == k \div height
             y == k % height
         IN  GenTrees(IF st.world[y][x].name = "grass" /\ <<y, x>> \in trees
                          THEN PlaceStructure(st.world, OakTree, x, y + 1)
                      ELSE st,
                      trees, k + 1, width, height)

GenWidth == 1
GenHeight == 7

NoiseLevels == {40, 55, 72, 100}
GenCells == (0..(GenWidth - 1)) \X (0..(GenHeight - 1))

\* the cells of the grid that hold grass before the trees are scattered
GrassCells(w) ==
    {p \in AllCells(w) : p[1] < GenHeight /\ w[p[1]][p[2]].name = "grass"}

\* world = WorldGenerator(seed, width, height).generate() for some noise
\* fields and some random draws
Generate ==
    /\ call.op = "init"
    /\ \E noise \in [0..(GenWidth - 1) -> [0..(GenHeight - 1) -> NoiseLevels]] :
       \E stony \in SUBSET {c \in GenCells :
                               BelowBand(noise, c[1], c[2], GenHeight)} :
       \E lucky \in SUBSET {c \in GenCells :
                               /\ BelowBand(noise, c[1], c[2], GenHeight)
                               /\ FirstOre(noise[c[1]][c[2]], 1) > 0
                               /\ OreChance(c[2], GenHeight)} :
        LET gravel == [x \in 0..(GenWidth - 1) |->
                          [y \in 0..(GenHeight - 1) |->
                              IF <<x, y>> \in stony THEN 80 ELSE 20]]
            columns == GenColumns(noise, gravel, lucky, GenWidth, GenHeight)
            terrain == Flip(Transpose(columns))
        IN  \E trees \in SUBSET GrassCells(terrain) :
                LET st == GenTrees([world |-> terrain, raised |-> FALSE],
                                   trees, 0, GenWidth, GenHeight)
                IN  /\ world' = IF st.raised THEN world ELSE st.world
                    /\ arg' = st.world
                    /\ ret' = IF st.raised THEN "IndexError" ELSE "ok"
                    /\ call' = [op |-> "generate", noise |-> noise,
                                gravel |-> gravel, lucky |-> lucky,
                                trees |-> trees, columns |-> columns,
                                terrain |-> terrain]
    /\ pre' = world
    /\ UNCHANGED <<tick, landed>>

InitGen == InitWith(EmptyList)

NextGen == Generate

SpecGen == InitGen /\ [][NextGen]_vars

\* C10: every column of generate holds exactly height blocks, so the grid
\* has height rows of width cells and the cell (x, y) of generation space
\* is at row height - 1 - y, column x.
C10_OneBlockPerCell ==
    call.op = "generate" =>
        /\ \A x \in 0..(GenWidth - 1) :
               ListLen(call.columns[x]) = GenHeight
        /\ Rows(call.terrain) = GenHeight
        /\ \A y \in DOMAIN call.terrain :
               /\ Cols(call.terrain, y) = GenWidth
               /\ \A x \in 0..(GenWidth - 1) :
                      GenHeight - 1 - y \in DOMAIN call.columns[x]
                      /\ call.terrain[y][x] = call.columns[x][GenHeight - 1 - y]


\* the cells at which the ore loop draws a random number that can succeed
OreCandidates(noise) ==
    {c \in GenCells : /\ BelowBand(noise, c[1], c[2], GenHeight)
                      /\ FirstOre(noise[c[1]][c[2]], 1) > 0
                      /\ OreChance(c[2], GenHeight)}

\* the grid before the trees are scattered
GenTerrain(noise, gravel, lucky) ==
    Flip(Transpose(GenColumns(noise, gravel, lucky, GenWidth, GenHeight)))

\* generate() for the noise fields of the seed and the random draws lucky
\* and trees: the grid and whether the call raised IndexError
GenerateRun(noise, gravel, lucky, trees) ==
    GenTrees([world |-> GenTerrain(noise, gravel, lucky), raised |-> FALSE],
             trees, 0, GenWidth, GenHeight)

\* C11: two runs of generate() with the same arguments, hence the same noise
\* fields, yield the same grid: whatever the random draws of a second run
\* are, it ends as the run that was made and returns the same grid.
C11_GenerateDeterministic ==
    call.op = "generate" =>
        \A lucky \in SUBSET OreCandidates(call.noise) :
            \A trees \in SUBSET GrassCells(GenTerrain(call.noise, call.gravel,
                                                      lucky)) :
                LET again == GenerateRun(call.noise, call.gravel, lucky, trees)
                IN  /\ again.raised = (ret = "IndexError")
                    /\ again.world = arg

----------------------------------------------------------------------------
(* FlatWorldGenerator.generate *)

\* a variant of FlatCell that starts the stone one row early
FlatCellEarlyStone(column, y, grass_height) ==
    IF y >= grass_height + 3 THEN Append(column, Stone)
    ELSE IF y = grass_height THEN Append(column, Grass)
    ELSE IF y > grass_height THEN Append(column, Dirt)
    ELSE Append(column, Air)

\* the body of the loop over y: the block appended to column, which is held
\* as the sequence of its blocks
FlatCell(column, y, grass_height) ==
    IF y > grass_height + 3 THEN Append(column, Stone)
    ELSE IF y = grass_height THEN Append(column, Grass)
    ELSE IF y > grass_height THEN Append(column, Dirt)
    ELSE Append(column, Air)

RECURSIVE FlatColumn(_, _, _)
\* the loop over y of one column, from y on
FlatColumn(column, y, height) ==
    IF y >= height THEN column
    ELSE FlatColumn(FlatCell(column, y, height - height \div 3),
                    y + 1, height)

\* FlatWorldGenerator(width, height).generate(): the columns, transposed
\* and not flipped
FlatGenerate(width, height) ==
    Transpose([x \in 0..(width - 1) |->
                  ListOf(FlatColumn(<<>>, 0, height))])

FlatWidth == 10
FlatHeight == 30

GenerateFlat ==
    /\ call.op = "init"
    /\ \E width \in 1..FlatWidth :
       \E height \in 1..FlatHeight :
           /\ world' = FlatGenerate(width, height)
           /\ arg' = FlatGenerate(width, height)
           /\ call' = [op |-> "flat", width |-> width, height |-> height]
    /\ ret' = "ok"
    /\ pre' = world
    /\ UNCHANGED <<tick, landed>>

InitFlat == InitWith(EmptyList)

NextFlat == GenerateFlat

SpecFlat == InitFlat /\ [][NextFlat]_vars

\* the block that the flat layout puts in row r for the grass row g
FlatLayout(r, g) ==
    IF r = g THEN Grass
    ELSE IF g < r /\ r <= g + 3 THEN Dirt
    ELSE IF r > g + 3 THEN Stone
    ELSE Air

\* C12: the flat generator returns height rows of width cells; with
\* g = height - height \div 3 row g is grass, the rows g+1..g+3 are dirt, the
\* rows below are stone and the rows above are air; for width 10 and height
\* 30 the grass row is 20, rows 21-23 are dirt, 24-29 stone and 0-19 air.
C12_FlatLayout ==
    call.op = "flat" =>
        /\ Rows(world) = call.height
        /\ \A r \in DOMAIN world :
               /\ Cols(world, r) = call.width
               /\ \A x \in DOMAIN world[r] :
                      world[r][x] =
                          FlatLayout(r, call.height - call.height \div 3)
        /\ (call.width = 10 /\ call.height = 30) =>
               \A x \in 0..9 :
                   /\ \A r \in 0..19 : world[r][x] = Air
                   /\ world[20][x] = Grass
                   /\ \A r \in 21..23 : world[r][x] = Dirt
                   /\ \A r \in 24..29 : world[r][x] = Stone

\* the flat world of width 10 and height 30 has been generated
C12_Witness ==
    /\ call.op = "flat" /\ call.width = 10 /\ call.height = 30
    /\ Rows(world) = 30
    /\ world[20][9] = Grass /\ world[29][0] = Stone

----------------------------------------------------------------------------
(* Rendering a block and parsing it back *)

TextDepth == 2

\* blocks without a remembered block that the generators and update_world
\* construct
TextBase ==
    {Air, Grass, Dirt, Stone, Water, Sand, Gravel, StaticGravel,
     RedstoneBlock, Block0("diamond_ore"), Block0("oak_log"),
     Dust(Off, 0), Dust(On, 15), Dust(On, 7), Lamp(On), Lamp(Off)}
    \cup {Repeater(st, o) : st \in {On, Off}, o \in {"l", "r"}}

RECURSIVE TextBlocks(_)
\* the blocks of TextBase and the observers that remember, to the depth d, a
\* block that update_world rendered
TextBlocks(d) ==
    IF d = 0 THEN TextBase
    ELSE TextBase \cup
         {Observer(st, o, Repr(b)) :
             st \in {On, Off}, o \in {"l", "r", "u", "d"},
             b \in TextBlocks(d - 1)}

InitText ==
    \E b \in TextBlocks(TextDepth) :
        /\ world = EmptyList /\ pre = EmptyList /\ landed = {}
        /\ tick = 0
        /\ arg = b
        /\ call = [op |-> "init"]
        /\ ret = "ok"

\* text = repr(b)
Render ==
    /\ call.op = "init"
    /\ call' = [op |-> "repr", text |-> Repr(arg)]
    /\ UNCHANGED <<world, tick, pre, arg, ret, landed>>

\* Block.from_string(text)
Parse ==
    /\ call.op = "repr"
    /\ ret' = FromString(call.text)
    /\ call' = [op |-> "from_string", text |-> call.text]
    /\ UNCHANGED <<world, tick, pre, arg, landed>>

NextText == Render \/ Parse

SpecText == InitText /\ [][NextText]_vars

\* C13: Block.from_string(repr(b)) == b for every block the generator or
\* update_world can produce, also when the attribute last holds the text of
\* another block, with its brackets, quotes, commas and "=".
C13_RoundTrip ==
    call.op = "from_string" => BlockEq(ret, arg) /\ ~BlockNe(ret, arg)

\* an observer that remembers an observer that remembers a dust has been
\* rendered and parsed back
C13_Witness ==
    /\ call.op = "from_string"
    /\ arg.name = "redstone_observer"
    /\ FromString(arg.attr.last).name = "redstone_observer"
    /\ FromString(FromString(arg.attr.last).attr.last) = Dust(On, 15)
    /\ ret = arg

----------------------------------------------------------------------------
(* WorldManager.save_world and WorldManager.load_world *)

\* world_data of save_world: the text of every block
WorldData(w) == [y \in DOMAIN w |-> [x \in DOMAIN w[y] |-> Repr(w[y][x])]]

\* the contents of the file that save_world writes, with the version v
WorldFile(w, v) == [world |-> WorldData(w), wf_version |-> v]

\* load_world on a file that holds data: the value it returns
LoadWorldOf(data) ==
    [world |-> [y \in DOMAIN data.world |->
                   [x \in DOMAIN data.world[y] |->
                       FromString(data.world[y][x])]],
     wf_version |-> data.wf_version]

LoadRows == 2
LoadCols == 2
LoadBlocks == 2
LoadVersions == 2

LoadPalette ==
    {Stone, StaticGravel, Dust(On, 15), Repeater(Off, "r"), Lamp(On),
     Observer(Off, "u", AirText)}

\* a saved world of some version is on disk: arg holds the file
InitLoad ==
    \E g \in Grids(LoadRows, LoadCols, LoadPalette, LoadBlocks) :
    \E v \in 0..LoadVersions :
        /\ world = EmptyList /\ pre = EmptyList /\ landed = {}
        /\ tick = 0
        /\ arg = WorldFile(g, v)
        /\ call = [op |-> "init"]
        /\ ret = "ok"

\* data = WorldManager.load_world(name); world = data["world"]: ret tells
\* how the call ended and call.data holds what it returned
LoadWorld ==
    /\ call.op = "init"
    /\ ret' = "ok"
    /\ world' = LoadWorldOf(arg).world
    /\ call' = [op |-> "load", data |-> LoadWorldOf(arg)]
    /\ pre' = world
    /\ UNCHANGED <<tick, arg, landed>>

NextLoad == LoadWorld

SpecLoad == InitLoad /\ [][NextLoad]_vars

\* C14: loading a saved world whose wf_version is not 1 is rejected with an
\* error of its own, and no parsed block data is returned to the caller.
C14_VersionRejected ==
    (call.op = "load" /\ arg.wf_version # 1) =>
        /\ ret = "VersionMismatch"
        /\ "world" \notin DOMAIN call.data
        /\ world = EmptyList

----------------------------------------------------------------------------
(* Redstone wiring on a grid of three rows *)

WireRows == 3
WireCols == 2
WireBlocks == 3
WireTicks == 3

WirePalette ==
    {Stone, RedstoneBlock, Lamp(Off), Dust(Off, 0), Dust(On, 5),
     Repeater(Off, "r"), Repeater(Off, "l"),
     Observer(Off, "d", AirText), Observer(Off, "d", StoneText)}

InitWire == InitGrids(WireRows, WireCols, WirePalette, WireBlocks)

NextWire == Tick(WireTicks)

SpecWire == InitWire /\ [][NextWire]_vars

\* (y, x) is the cell a repeater of w facing l or r faces
ForwardOfRepeater(w, y, x) ==
    \E q \in AllCells(w) :
        /\ IsRepeater(w[q[1]][q[2]])
        /\ (Facing(w[q[1]][q[2]], "l") \/ Facing(w[q[1]][q[2]], "r"))
        /\ <<y, x>> = <<q[1], FacedCol(w[q[1]][q[2]], q[2])>>

\* (y, x) is the cell behind an observer of w that fires
BehindFiringObserver(w, y, x) ==
    \E q \in AllCells(w) :
        /\ IsObserver(w[q[1]][q[2]])
        /\ ObserverFires(w, q[1], q[2])
        /\ <<y, x>> = BehindCell(w[q[1]][q[2]], q[1], q[2])

\* the in-bounds 8-neighbours of (y, x)
Nbrs8(w, y, x) ==
    {q \in AllCells(w) :
        /\ q # <<y, x>>
        /\ q[1] - y \in {-1, 0, 1}
        /\ q[2] - x \in {-1, 0, 1}}

\* what a block feeds into a neighbouring dust
FedPower(b) ==
    IF b.name = "redstone_block" THEN 16
    ELSE IF IsDust(b) THEN IntOfStr(BlockGetattr(b, "power"))
    ELSE 0

\* the power of a dust cell at (y, x) after a tick, from its neighbours
\* before the tick
DecayedPower(w, y, x) ==
    LET fed == {FedPower(w[q[1]][q[2]]) : q \in Nbrs8(w, y, x)} \cup {0}
        g == CHOOSE m \in fed : \A n \in fed : n <= m
    IN  IF g - 1 > 0 THEN g - 1 ELSE 0

\* C15: on a tick with tick % 2 = 0, a dust cell that no repeater faces and
\* that is not behind a firing observer is after the tick dust whose power
\* is max(0, g - 1), g the greatest over its in-bounds 8-neighbours of 16
\* for a redstone_block and of the power of a dust, and whose state is on
\* iff that power is positive.
C15_DustPower ==
    (call.op = "tick" /\ call.tick % 2 = 0) =>
        \A p \in AllCells(pre) :
            (/\ IsDust(pre[p[1]][p[2]])
             /\ ~ForwardOfRepeater(pre, p[1], p[2])
             /\ ~BehindFiringObserver(pre, p[1], p[2]))
                => LET power == DecayedPower(pre, p[1], p[2])
                   IN  world[p[1]][p[2]] =
                           Dust(IF power > 0 THEN On ELSE Off, power)

\* the cell behind a repeater at (y, x) facing l or r
BackCell(b, y, x) == IF Facing(b, "l") THEN <<y, x + 1>> ELSE <<y, x - 1>>

\* the block b powers a repeater whose back is to it
PowersRepeater(b) ==
    \/ IsDust(b) /\ IsOn(b)
    \/ IsRepeater(b) /\ IsOn(b)
    \/ b.name = "redstone_block"

\* C16: on a tick with tick % 2 = 0, a repeater facing l or r that no
\* repeater faces and that is not behind a firing observer is after the
\* tick a repeater that is on iff the cell behind it is in bounds and held,
\* before the tick, dust that is on, a repeater that is on or a
\* redstone_block, and that is off otherwise.
C16_RepeaterPowered ==
    (call.op = "tick" /\ call.tick % 2 = 0) =>
        \A p \in AllCells(pre) :
            LET b == pre[p[1]][p[2]]
                q == BackCell(b, p[1], p[2])
            IN  (/\ IsRepeater(b)
                 /\ (Facing(b, "l") \/ Facing(b, "r"))
                 /\ ~ForwardOfRepeater(pre, p[1], p[2])
                 /\ ~BehindFiringObserver(pre, p[1], p[2]))
                    => /\ IsRepeater(world[p[1]][p[2]])
                       /\ BlockGetattr(world[p[1]][p[2]], "state") =
                              IF /\ q \in AllCells(pre)
                                 /\ PowersRepeater(pre[q[1]][q[2]])
                              THEN On ELSE Off

IsLamp(b) == b.name = "redstone_lamp"

\* the block b at q lights the lamp at p: a redstone_block, dust or a
\* repeater that is on, or an observer that is on and whose back is to p
LightsLamp(b, q, p) ==
    \/ b.name = "redstone_block"
    \/ IsDust(b) /\ IsOn(b)
    \/ IsRepeater(b) /\ IsOn(b)
    \/ IsObserver(b) /\ IsOn(b) /\ BehindCell(b, q[1], q[2]) = p

\* C17: on a tick with tick % 2 = 0, a lamp that is not behind a firing
\* observer is on after the tick iff, before the tick, one of its in-bounds
\* 8-neighbours is a redstone_block, dust that is on, a repeater that is
\* on, or an observer that is on and whose back is to the lamp; an observer
\* that is diagonal to the lamp does not light it.
C17_LampLit ==
    (call.op = "tick" /\ call.tick % 2 = 0) =>
        \A p \in AllCells(pre) :
            (/\ IsLamp(pre[p[1]][p[2]])
             /\ ~BehindFiringObserver(pre, p[1], p[2]))
                => world[p[1]][p[2]] =
                       Lamp(IF \E q \in Nbrs8(pre, p[1], p[2]) :
                                   LightsLamp(pre[q[1]][q[2]], q, p)
                            THEN On ELSE Off)

----------------------------------------------------------------------------
(* Observers *)

ObsRows == 2
ObsCols == 2
ObsBlocks == 2
ObsTicks == 3

ObsPalette ==
    {Stone, Sand, Observer(Off, "l", AirText), Observer(Off, "r", AirText),
     Observer(Off, "u", AirText), Observer(Off, "d", StoneText)}

InitObserver == InitGrids(ObsRows, ObsCols, ObsPalette, ObsBlocks)

NextObserver == Tick(ObsTicks)

SpecObserver == InitObserver /\ [][NextObserver]_vars

\* the cell an observer at (y, x) faces
FacedCell(b, y, x) ==
    IF Facing(b, "l") THEN <<y, x - 1>>
    ELSE IF Facing(b, "r") THEN <<y, x + 1>>
    ELSE IF Facing(b, "u") THEN <<y - 1, x>>
    ELSE <<y + 1, x>>

\* the observer block with the orientation of b
ObserverLike(b, state, last) ==
    Block("redstone_observer",
          [state |-> state,
           orientation |-> BlockGetattr(b, "orientation"),
           last |-> last])

\* C18: on a tick with tick % 2 = 0, the cell of an observer holds after
\* the tick an observer of the same orientation, on with last the canonical
\* text of the faced block when the faced cell is in bounds and its block
\* differs from the block parsed from last, and off with last unchanged
\* otherwise; so an observer facing out of bounds is off, and an observer
\* whose last is the canonical text of the block it faces, as it is after
\* it has fired on a block that has not changed since, is off.
C18_ObserverCell ==
    (call.op = "tick" /\ call.tick % 2 = 0) =>
        \A p \in AllCells(pre) :
            LET b == pre[p[1]][p[2]]
                f == FacedCell(b, p[1], p[2])
                last == BlockGetattr(b, "last")
            IN  IsObserver(b) =>
                    /\ world[p[1]][p[2]] =
                           IF /\ f \in AllCells(pre)
                              /\ pre[f[1]][f[2]] # FromString(last)
                           THEN ObserverLike(b, On, Repr(pre[f[1]][f[2]]))
                           ELSE ObserverLike(b, Off, last)
                    /\ f \notin AllCells(pre)
                           => world[p[1]][p[2]] = ObserverLike(b, Off, last)
                    /\ (f \in AllCells(pre) /\ last = Repr(pre[f[1]][f[2]]))
                           => world[p[1]][p[2]] = ObserverLike(b, Off, last)

\* an observer that fired in tick 0 on a block that is still there is off
\* after tick 2
C18_Witness ==
    /\ call.op = "tick" /\ call.tick = 2
    /\ \E p \in AllCells(pre) :
           LET b == pre[p[1]][p[2]]
               f == FacedCell(b, p[1], p[2])
           IN  /\ IsObserver(b) /\ IsOn(b)
               /\ f \in AllCells(pre)
               /\ BlockGetattr(b, "last") = Repr(pre[f[1]][f[2]])
               /\ pre[f[1]][f[2]] # Air
               /\ world[p[1]][p[2]] = ObserverLike(b, Off, BlockGetattr(b, "last"))

----------------------------------------------------------------------------
(* Water *)

WaterRows == 2
WaterCols == 3
WaterBlocks == 2
WaterTicks == 16

WaterPalette == {Water, Stone, Sand}

InitWater == InitGrids(WaterRows, WaterCols, WaterPalette, WaterBlocks)

NextWater == Tick(WaterTicks)

SpecWater == InitWater /\ [][NextWater]_vars

IsWater(b) == b.name = "water"
IsAir(b) == b.name = "air"

\* the water at (r, c) of w falls: the cell below it is in bounds and holds
\* air or water
WaterFalls(w, r, c) ==
    /\ <<r + 1, c>> \in AllCells(w)
    /\ (IsAir(w[r + 1][c]) \/ IsWater(w[r + 1][c]))

\* the cells left and right of (r, c) that are in bounds and hold air
AirSides(w, r, c) ==
    {q \in {<<r, c - 1>>, <<r, c + 1>>} \cap AllCells(w) : IsAir(w[q[1]][q[2]])}

\* water of w reaches the cell (r, c): water directly above it, or water
\* beside it that does not fall
WaterReaches(w, r, c) ==
    \/ <<r - 1, c>> \in AllCells(w) /\ IsWater(w[r - 1][c])
    \/ \E q \in {<<r, c - 1>>, <<r, c + 1>>} \cap AllCells(w) :
           IsWater(w[q[1]][q[2]]) /\ ~WaterFalls(w, q[1], q[2])

\* C19: on a tick with tick % 15 = 0, every water cell is water after the
\* tick; if the cell below it is in bounds and held air or water, that cell
\* is water after the tick, and otherwise each cell beside it that is in
\* bounds and held air is water after the tick; water that falls fills no
\* cell beside it, so a cell that held air is water after the tick only if
\* water lay directly above it or water that did not fall lay beside it.
C19_WaterSpreads ==
    (call.op = "tick" /\ call.tick % 15 = 0) =>
        \A p \in AllCells(pre) :
            /\ IsWater(pre[p[1]][p[2]]) =>
                   /\ world[p[1]][p[2]] = Water
                   /\ IF WaterFalls(pre, p[1], p[2])
                      THEN world[p[1] + 1][p[2]] = Water
                      ELSE \A q \in AirSides(pre, p[1], p[2]) :
                               world[q[1]][q[2]] = Water
            /\ (IsAir(pre[p[1]][p[2]]) /\ IsWater(world[p[1]][p[2]]))
                   => WaterReaches(pre, p[1], p[2])

\* in tick 15 water in the bottom row has filled the air on both sides of
\* it, while the water above it, which fell, has filled neither side
C19_Witness ==
    /\ call.op = "tick" /\ call.tick = 15
    /\ \E p \in AllCells(pre) :
           /\ IsWater(pre[p[1]][p[2]])
           /\ ~WaterFalls(pre, p[1], p[2])
           /\ Cardinality(AirSides(pre, p[1], p[2])) = 2
           /\ \A q \in AirSides(pre, p[1], p[2]) : world[q[1]][q[2]] = Water
           /\ p[1] >= 1
           /\ IsWater(pre[p[1] - 1][p[2]])
           /\ AirSides(pre, p[1] - 1, p[2]) # {}
           /\ \A q \in AirSides(pre, p[1] - 1, p[2]) : IsAir(world[q[1]][q[2]])

----------------------------------------------------------------------------
(* Dirt *)

IsDirt(b) == b.name = "dirt"

\* one of the in-bounds 8-neighbours of (y, x) holds grass
GrassNear(w, y, x) ==
    \E q \in Nbrs8(w, y, x) : w[q[1]][q[2]].name = "grass"

\* a block other than air lies directly above (y, x)
CoveredAbove(w, y, x) == y >= 1 /\ ~IsAir(w[y - 1][x])

\* C20: in a tick, whatever its index, a dirt cell that had no grass among
\* its in-bounds 8-neighbours, or a block other than air directly above
\* it, is still dirt after the tick; a dirt cell is grass after the tick
\* only if it had a grass neighbour and no block other than air above it.
C20_DirtStaysDirt ==
    call.op = "tick" =>
        \A p \in AllCells(pre) :
            IsDirt(pre[p[1]][p[2]]) =>
                /\ world[p[1]][p[2]] \in {Dirt, Grass}
                /\ (~GrassNear(pre, p[1], p[2]) \/ CoveredAbove(pre, p[1], p[2]))
                       => world[p[1]][p[2]] = Dirt
                /\ world[p[1]][p[2]] = Grass
                       => /\ GrassNear(pre, p[1], p[2])
                          /\ ~CoveredAbove(pre, p[1], p[2])

\* in one tick a dirt cell under air next to grass has become grass
C20_Witness ==
    /\ call.op = "tick"
    /\ \E p \in AllCells(pre) :
           /\ IsDirt(pre[p[1]][p[2]])
           /\ p[1] >= 1
           /\ IsAir(pre[p[1] - 1][p[2]])
           /\ GrassNear(pre, p[1], p[2])
           /\ world[p[1]][p[2]] = Grass

----------------------------------------------------------------------------
(* The tick gates of the rule families *)

GateRows == 3
GateCols == 1
GateBlocks == 2
GateTicks == 16

InitGate ==
    InitGrids(GateRows, GateCols,
              {Water, Sand, StaticGravel, Dust(On, 5), Dirt, Grass},
              GateBlocks)

NextGate == Tick(GateTicks)

SpecGate == InitGate /\ [][NextGate]_vars

IsGranular(b) == b.name \in {"sand", "gravel"}

IsRedstonePart(b) ==
    b.name \in {"redstone_dust", "redstone_repeater", "redstone_lamp",
                "redstone_observer"}

\* C21: in a tick whose index is not a multiple of 15 no cell becomes
\* water; in a tick whose index is not a multiple of 10 no sand or gravel
\* cell changes and no cell becomes sand or gravel; in a tick whose index is
\* odd every cell holding dust, a repeater, a lamp or an observer is
\* unchanged; in a tick whose index is odd and not a multiple of 5 only
\* dirt and grass cells differ between the grid before and after.
C21_TickGates ==
    call.op = "tick" =>
        \A p \in AllCells(pre) :
            LET old == pre[p[1]][p[2]]
                new == world[p[1]][p[2]]
            IN  /\ call.tick % 15 # 0 => (IsWater(new) => IsWater(old))
                /\ call.tick % 10 # 0 =>
                       /\ IsGranular(old) => new = old
                       /\ IsGranular(new) => IsGranular(old)
                /\ call.tick % 2 # 0 => (IsRedstonePart(old) => new = old)
                /\ (call.tick % 2 # 0 /\ call.tick % 5 # 0) =>
                       (new # old => (IsDirt(old) \/ old.name = "grass"))

\* tick 5 has left the grid as it was, a sand block over air included
C21_Witness ==
    /\ call.op = "tick" /\ call.tick = 5
    /\ world = pre
    /\ \E p \in AllCells(pre) :
           /\ p[1] + 1 < Rows(pre)
           /\ IsAir(pre[p[1] + 1][p[2]])
           /\ pre[p[1]][p[2]] = Sand

\* C22: in every tick a gravel block that carries static = "T" stays in
\* its cell with its attribute, also over air in a tick whose index is a
\* multiple of 10; a sand or gravel block that leaves its cell does not
\* carry the attribute.
C22_StaticGravelStays ==
    call.op = "tick" =>
        \A p \in AllCells(pre) :
            /\ pre[p[1]][p[2]] = StaticGravel => world[p[1]][p[2]] = StaticGravel
            /\ (IsGranular(pre[p[1]][p[2]]) /\ ~IsGranular(world[p[1]][p[2]]))
                   => BlockGetattr(pre[p[1]][p[2]], "static") # <<"T">>

\* tick 10 has left a static gravel block over air in its cell
C22_Witness ==
    /\ call.op = "tick" /\ call.tick = 10
    /\ \E p \in AllCells(pre) :
           /\ p[1] + 1 < Rows(pre)
           /\ pre[p[1]][p[2]] = StaticGravel
           /\ IsAir(pre[p[1] + 1][p[2]])
           /\ world[p[1]][p[2]] = StaticGravel
           /\ IsAir(world[p[1] + 1][p[2]])

----------------------------------------------------------------------------
(* place_structure inside the grid *)

\* the whole footprint of the call c lies inside the grid w
FootprintInside(c, w) ==
    LET x0 == c.x - c.structure.placepoint[0]
        y0 == c.y - c.structure.placepoint[1]
    IN  /\ x0 >= 0 /\ x0 + c.structure.dim[0] <= Cols(w, 0)
        /\ y0 >= 0 /\ y0 + c.structure.dim[1] <= Rows(w)

\* the template characters of the call c that land on the cell p
CharsOn(c, p) ==
    {c.structure.structure[dy][dx] :
        dx \in {i \in 0..(c.structure.dim[0] - 1) :
                   c.x - c.structure.placepoint[0] + i = p[2]},
        dy \in {j \in 0..(c.structure.dim[1] - 1) :
                   c.y - c.structure.placepoint[1] + j = p[1]}}

\* the block names the call c stamps on the cell p
StampedOn(c, p) ==
    {c.structure.keys[ch] :
        ch \in {k \in CharsOn(c, p) \cap DOMAIN c.structure.keys :
                   c.structure.keys[k] # "air"}}

\* C23: place_structure with the whole footprint inside the grid raises no
\* error and sets every cell under a template character that maps to a
\* block name other than air to an attribute-less block of that name, the
\* anchor cell of the template landing on (x, y); every other cell, under a
\* character that maps to air, under a character the keys do not hold or
\* outside the footprint, is unchanged.
C23_PlaceInside ==
    (call.op = "place" /\ FootprintInside(call, pre)) =>
        /\ ret = "ok"
        /\ \A p \in AllCells(pre) :
               world[p[1]][p[2]] =
                   IF StampedOn(call, p) = {} THEN pre[p[1]][p[2]]
                   ELSE Block0(CHOOSE n \in StampedOn(call, p) : TRUE)

\* a bush has been placed inside a grid whose stone lies under the anchor
\* character, which maps to air: its leaves are there and the stone is
\* still there
C23_Witness ==
    /\ call.op = "place" /\ FootprintInside(call, pre)
    /\ call.structure = Bush
    /\ world[call.y][call.x] = Stone
    /\ world[call.y - 1][call.x] = Block0("oak_leaves")
    /\ world[call.y][call.x + 1] = Block0("oak_leaves")
    /\ pre[call.y - 1][call.x] = Air

----------------------------------------------------------------------------
(* Redstone invariants *)

\* C24: a tick never changes the orientation of a repeater: a cell that
\* holds a repeater before and after the tick has the same orientation,
\* also when another repeater faces it or a firing observer has its back to
\* it.
C24_OrientationKept ==
    call.op = "tick" =>
        \A p \in AllCells(pre) :
            (IsRepeater(pre[p[1]][p[2]]) /\ IsRepeater(world[p[1]][p[2]]))
                => BlockGetattr(world[p[1]][p[2]], "orientation")
                       = BlockGetattr(pre[p[1]][p[2]], "orientation")

\* the dust b has an integer power in 0..15 and is on iff its power is
\* positive
DustWellFormed(b) ==
    \E n \in 0..15 : b = Dust(IF n > 0 THEN On ELSE Off, n)

\* C25: starting from a grid in which every dust has an integer power in
\* 0..15 and state on iff its power is positive, after any sequence of
\* ticks every dust cell still has an integer power in 0..15 and state on
\* iff its power is positive, whichever rule wrote it last.
C25_DustWellFormed ==
    \A p \in AllCells(world) :
        IsDust(world[p[1]][p[2]]) => DustWellFormed(world[p[1]][p[2]])

\* a tick has left in a dust cell a power that the dust rule does not give
\* it: a repeater or an observer wrote the cell last
C25_Witness ==
    /\ call.op = "tick" /\ call.tick % 2 = 0
    /\ \E p \in AllCells(pre) :
           /\ IsDust(pre[p[1]][p[2]])
           /\ world[p[1]][p[2]] = Dust(On, 15)
           /\ DecayedPower(pre, p[1], p[2]) = 0

----------------------------------------------------------------------------
(* Dust without a power source *)

DustRows == 1
DustCols == 2
DustBlocks == 2
DustTicks == 31

NextDust == Tick(DustTicks)

SpecDust ==
    /\ InitGrids(DustRows, DustCols, {Dust(On, 15), Dust(On, 7)}, DustBlocks)
    /\ [][NextDust]_vars

\* the greatest power of the dust cells of w, 0 if it holds no dust
MaxDustPower(w) ==
    LET powers == {IntOfStr(BlockGetattr(w[p[1]][p[2]], "power")) :
                      p \in {q \in AllCells(w) : IsDust(w[q[1]][q[2]])}} \cup {0}
    IN  CHOOSE m \in powers : \A n \in powers : n <= m

\* w holds no redstone_block, no repeater and no observer
NoPowerSource(w) ==
    \A p \in AllCells(w) :
        w[p[1]][p[2]].name \notin
            {"redstone_block", "redstone_repeater", "redstone_observer"}

AllDustOff(w) ==
    \A p \in AllCells(w) :
        IsDust(w[p[1]][p[2]]) => w[p[1]][p[2]] = Dust(Off, 0)

\* C26: in a grid that holds no redstone_block, no repeater and no
\* observer, with dust powers in 0..15 at the start, the greatest dust
\* power never rises and is lower after every tick with tick % 2 = 0 than
\* before it, until it is 0; when it is 0 after an even tick every dust is
\* off with power 0; with the ticks 0, 1, 2, ... every dust is off with
\* power 0 once 15 even ticks are done, and at every later tick.
C26_DustDecays ==
    /\ (call.op = "tick" /\ NoPowerSource(pre)) =>
           /\ NoPowerSource(world)
           /\ MaxDustPower(world) <= MaxDustPower(pre)
           /\ call.tick % 2 = 0 =>
                  /\ MaxDustPower(pre) > 0
                         => MaxDustPower(world) < MaxDustPower(pre)
                  /\ MaxDustPower(world) = 0 => AllDustOff(world)
    /\ (NoPowerSource(world) /\ tick >= 29) => AllDustOff(world)

\* tick 28, the fifteenth even tick, has switched off two dust cells that
\* started with power 15
C26_Witness ==
    /\ call.op = "tick" /\ call.tick = 28
    /\ MaxDustPower(pre) = 1
    /\ Cardinality({p \in AllCells(world) : world[p[1]][p[2]] = Dust(Off, 0)}) = 2

----------------------------------------------------------------------------
(* Water under update_world *)

WaterCells(w) == {p \in AllCells(w) : IsWater(w[p[1]][p[2]])}

\* C27: a cell that holds water before a call of update_world holds water
\* after it, at every tick index: the set of water cells never shrinks.
C27_WaterKept ==
    call.op = "tick" => WaterCells(pre) \subseteq WaterCells(world)

\* a tick on which sand or gravel fell and water spread, every water cell
\* of the grid before it still holding water
C27_Witness ==
    /\ call.op = "tick"
    /\ WaterCells(pre) # {}
    /\ WaterCells(pre) \subseteq WaterCells(world)
    /\ WaterCells(world) # WaterCells(pre)
    /\ \E p \in AllCells(pre) :
           /\ IsGranular(pre[p[1]][p[2]])
           /\ IsAir(world[p[1]][p[2]])

============================================================================
